---- MODULE Spec2Model ----
(***************************************************************************)
(* Model of the entity-component runtime of src/src/ecs.rs:                *)
(* EntityAllocator, ComponentPool, ComponentMap (RefCell-guarded pools),   *)
(* World and the Query implementations.                                    *)
(*                                                                         *)
(* Conventions.  Rust indices are 0-based, TLA+ sequences are 1-based: the *)
(* entry of entity id i is entries[i + 1], the dense position p is element *)
(* p + 1.  Option<X> is the sequence <<>> (None) or <<x>> (Some(x)).  A    *)
(* return value is a tuple whose first element is its tag.                 *)
(***************************************************************************)
EXTENDS Integers, Sequences, FiniteSets, TLC

\* ---------------------------------------------------------------- bounds
\* Most entries the allocator may hold (entries is grow-only).
MaxEntities == 2
\* Highest generation an index may reach.
MaxGeneration == 1
\* Longest free list (deallocate pushes without limit).
MaxFree == 2
\* Most accessors of one pool outstanding at once.
MaxBorrows == 2

\* EntityId is u16: `self.entries.len() as EntityId` keeps the low 16 bits.
IdSpace == 65536

\* Component types A and B (TypeId::of::<ComponentPool<A>>() and ...<B>).
Types == {"A", "B"}
\* Component values a caller may insert, per type.
Values == {"v1", "v2"}
ValuesOf(T) == IF T = "A" THEN Values ELSE {"v1"}
\* The queries a caller may run: &A, and the pairs (&A, &B) and (&B, &A).
Queries == {<<"A">>, <<"A", "B">>, <<"B", "A">>}

VARIABLES
    entity_allocator,   \* World.entity_allocator: [entries, available_entity_ids]
    component_pools,    \* World.component_pools.map: registered type -> ComponentPool
    borrows,            \* RefCell borrow state of each pool: [readers, writers]
    iters,              \* live iterators returned by query / query_mut
    panicked,           \* TRUE once a panic has aborted the program
    owned,              \* history: <<T, entity, value>> inserted by add_component
    call,               \* history: the last operation and its arguments
    ret                 \* history: what the last operation returned

vars == <<entity_allocator, component_pools, borrows, iters, panicked, owned, call, ret>>

\* ------------------------------------------------------------- utilities
Range(s) == {s[k] : k \in 1..Len(s)}

Entity(id, generation) == [id |-> id, generation |-> generation]

\* --------------------------------------------------------- EntityAllocator
\* EntityAllocator::new
EntityAllocator_new == [entries |-> <<>>, available_entity_ids |-> <<>>]

\* `self.entries.len() as EntityId - 1` in allocate subtracts 1 from 0: a build
\* with overflow checks panics there, a build without them wraps to IdSpace - 1.
subtract_overflows(a) ==
    /\ a.available_entity_ids = <<>>
    /\ (Len(a.entries) + 1) % IdSpace = 0

\* A faulty allocate: a reused index starts again at generation 0.
allocate_reset_generation(a) ==
    IF a.available_entity_ids # <<>>
    THEN LET n == Len(a.available_entity_ids)
             reusable_entity_id == a.available_entity_ids[n]
         IN  [alloc |-> [entries |-> [a.entries EXCEPT ![reusable_entity_id + 1] =
                                         [is_alive |-> TRUE, generation |-> 0]],
                         available_entity_ids |-> SubSeq(a.available_entity_ids, 1, n - 1)],
              entity |-> Entity(reusable_entity_id, 0)]
    ELSE LET entries == Append(a.entries, [is_alive |-> TRUE, generation |-> 0])
         IN  [alloc |-> [entries |-> entries,
                         available_entity_ids |-> a.available_entity_ids],
              entity |-> Entity(((Len(entries) % IdSpace) - 1) % IdSpace, 0)]

\* A faulty allocate: the free list is used as a queue (oldest index first).
allocate_fifo(a) ==
    IF a.available_entity_ids # <<>>
    THEN LET reusable_entity_id == a.available_entity_ids[1]
             generation == a.entries[reusable_entity_id + 1].generation + 1
         IN  [alloc |-> [entries |-> [a.entries EXCEPT ![reusable_entity_id + 1] =
                                         [is_alive |-> TRUE, generation |-> generation]],
                         available_entity_ids |-> Tail(a.available_entity_ids)],
              entity |-> Entity(reusable_entity_id, generation)]
    ELSE LET entries == Append(a.entries, [is_alive |-> TRUE, generation |-> 0])
         IN  [alloc |-> [entries |-> entries,
                         available_entity_ids |-> a.available_entity_ids],
              entity |-> Entity(((Len(entries) % IdSpace) - 1) % IdSpace, 0)]

\* A faulty allocate: a reused index keeps its stored generation.
allocate_skip_generation(a) ==
    IF a.available_entity_ids # <<>>
    THEN LET n == Len(a.available_entity_ids)
             reusable_entity_id == a.available_entity_ids[n]
             generation == a.entries[reusable_entity_id + 1].generation
         IN  [alloc |-> [entries |-> [a.entries EXCEPT ![reusable_entity_id + 1] =
                                         [is_alive |-> TRUE, generation |-> generation]],
                         available_entity_ids |-> SubSeq(a.available_entity_ids, 1, n - 1)],
              entity |-> Entity(reusable_entity_id, generation)]
    ELSE LET entries == Append(a.entries, [is_alive |-> TRUE, generation |-> 0])
         IN  [alloc |-> [entries |-> entries,
                         available_entity_ids |-> a.available_entity_ids],
              entity |-> Entity(((Len(entries) % IdSpace) - 1) % IdSpace, 0)]

\* EntityAllocator::allocate: the allocator afterwards and the Entity returned.
allocate(a) ==
    IF a.available_entity_ids # <<>>
    THEN LET n == Len(a.available_entity_ids)
             reusable_entity_id == a.available_entity_ids[n]
             generation == a.entries[reusable_entity_id + 1].generation + 1
         IN  [alloc |-> [entries |-> [a.entries EXCEPT ![reusable_entity_id + 1] =
                                         [is_alive |-> TRUE, generation |-> generation]],
                         available_entity_ids |-> SubSeq(a.available_entity_ids, 1, n - 1)],
              entity |-> Entity(reusable_entity_id, generation)]
    ELSE LET entries == Append(a.entries, [is_alive |-> TRUE, generation |-> 0])
         IN  [alloc |-> [entries |-> entries,
                         available_entity_ids |-> a.available_entity_ids],
              entity |-> Entity(((Len(entries) % IdSpace) - 1) % IdSpace, 0)]

\* A faulty deallocate: the generation is raised when the entry dies.
deallocate_bump(a, entity) ==
    IF entity.id + 1 <= Len(a.entries)
    THEN [alloc |-> [entries |-> [a.entries EXCEPT ![entity.id + 1] =
                                     [is_alive |-> FALSE, generation |-> @.generation + 1]],
                     available_entity_ids |-> Append(a.available_entity_ids, entity.id)],
          result |-> <<"Ok">>]
    ELSE [alloc |-> a, result |-> <<"Err", "OutOfBounds">>]

\* EntityAllocator::deallocate: the allocator afterwards and the Result.
\* Neither the entry's liveness nor the handle's generation is looked at.
deallocate(a, entity) ==
    IF entity.id + 1 <= Len(a.entries)
    THEN [alloc |-> [entries |-> [a.entries EXCEPT ![entity.id + 1].is_alive = FALSE],
                     available_entity_ids |-> Append(a.available_entity_ids, entity.id)],
          result |-> <<"Ok">>]
    ELSE [alloc |-> a, result |-> <<"Err", "OutOfBounds">>]

\* EntityAllocator::is_alive
is_alive(a, entity) ==
    IF entity.id + 1 <= Len(a.entries)
    THEN a.entries[entity.id + 1].is_alive
    ELSE FALSE

\* A faulty is_valid: the generation alone, liveness is not looked at.
is_valid_ignore_liveness(a, entity) ==
    IF entity.id + 1 <= Len(a.entries)
    THEN a.entries[entity.id + 1].generation = entity.generation
    ELSE FALSE

\* A faulty is_valid: liveness alone, the generation is not compared.
is_valid_any_generation(a, entity) ==
    IF entity.id + 1 <= Len(a.entries)
    THEN a.entries[entity.id + 1].is_alive
    ELSE FALSE

\* EntityAllocator::is_valid
is_valid(a, entity) ==
    IF entity.id + 1 <= Len(a.entries)
    THEN a.entries[entity.id + 1].is_alive
         /\ a.entries[entity.id + 1].generation = entity.generation
    ELSE FALSE

\* EntityAllocator::get_num_entries
get_num_entries(a) == Len(a.entries)

\* ----------------------------------------------------------- ComponentPool
\* The pool built by World::register_component: one unset sparse slot per
\* allocator entry, no dense entry.
ComponentPool_new(num_entries) ==
    [all_entities |-> [k \in 1..num_entries |-> <<>>],
     entities_with_component |-> <<>>,
     components |-> <<>>]

\* A faulty register_entity: the sparse array is never grown.
register_entity_no_resize(pool, entity) == pool

\* ComponentStorage::register_entity: grow the sparse array to cover the
\* entity's id; an existing slot is left as it is.
register_entity(pool, entity) ==
    LET index == entity.id
        len == Len(pool.all_entities)
    IN  IF len <= index
        THEN [pool EXCEPT !.all_entities =
                 [k \in 1..(index + 1) |-> IF k <= len THEN pool.all_entities[k] ELSE <<>>]]
        ELSE pool

\* A faulty insertion: the dense position is not recorded in the sparse slot.
pool_insert_no_sparse(pool, entity, component) ==
    [all_entities |-> pool.all_entities,
     entities_with_component |-> Append(pool.entities_with_component, entity),
     components |-> Append(pool.components, component)]

\* The `None` arm of World::add_component: push on both dense arrays and
\* record the dense position in the sparse slot.
pool_insert(pool, entity, component) ==
    LET entities == Append(pool.entities_with_component, entity)
        entities_with_component_index == Len(entities) - 1
    IN  [all_entities |-> [pool.all_entities EXCEPT ![entity.id + 1] =
                              <<entities_with_component_index>>],
         entities_with_component |-> entities,
         components |-> Append(pool.components, component)]

\* ------------------------------------------------- ComponentMap and RefCell
\* A RefCell with no borrow outstanding.
Unborrowed == [readers |-> 0, writers |-> 0]

\* A faulty get: the shared borrow taken as an exclusive one.
ComponentMap_get_exclusive(bs, T) ==
    IF T \notin DOMAIN component_pools THEN <<"None">>
    ELSE IF bs[T].writers > 0 \/ bs[T].readers > 0 THEN <<"Panic">>
    ELSE <<"Ref">>

\* A faulty get: one borrow flag for the whole map instead of one per pool.
ComponentMap_get_one_cell(bs, T) ==
    IF T \notin DOMAIN component_pools THEN <<"None">>
    ELSE IF \E U \in Types : bs[U].writers > 0 THEN <<"Panic">>
    ELSE <<"Ref">>

\* A faulty get: a Ref is handed out even while a RefMut is outstanding.
ComponentMap_get_unchecked(bs, T) ==
    IF T \notin DOMAIN component_pools THEN <<"None">>
    ELSE <<"Ref">>

\* ComponentMap::get: None for an unregistered type, else cell.borrow(),
\* which panics while a RefMut of the cell is outstanding.
ComponentMap_get(bs, T) ==
    IF T \notin DOMAIN component_pools THEN <<"None">>
    ELSE IF bs[T].writers > 0 THEN <<"Panic">>
    ELSE <<"Ref">>

\* A faulty get_mut: the cell is handed out whatever is outstanding.
ComponentMap_get_mut_unchecked(bs, T) ==
    IF T \notin DOMAIN component_pools THEN <<"None">>
    ELSE <<"RefMut">>

\* ComponentMap::get_mut: None for an unregistered type, else
\* cell.borrow_mut(), which panics while any Ref or RefMut is outstanding.
ComponentMap_get_mut(bs, T) ==
    IF T \notin DOMAIN component_pools THEN <<"None">>
    ELSE IF bs[T].writers > 0 \/ bs[T].readers > 0 THEN <<"Panic">>
    ELSE <<"RefMut">>

AcquireRef(bs, T) == [bs EXCEPT ![T].readers = @ + 1]
AcquireRefMut(bs, T) == [bs EXCEPT ![T].writers = @ + 1]

\* No Ref, RefMut or query iterator borrows the World: what the borrow
\* checker requires of the caller of a `&mut self` method.
NoOutstanding ==
    /\ iters = <<>>
    /\ \A T \in Types : borrows[T] = Unborrowed

\* -------------------------------------------------------------------- World
\* The sparse lookup shared by get_component and get_component_mut, once the
\* pool is borrowed: all_entities[entity.id] then components[dense_data_index]
\* (both are checked indexings).
pool_lookup(pool, entity) ==
    IF entity.id + 1 > Len(pool.all_entities) THEN <<"Panic">>
    ELSE IF pool.all_entities[entity.id + 1] = <<>> THEN <<"None">>
    ELSE LET dense_data_index == pool.all_entities[entity.id + 1][1]
         IN  IF dense_data_index + 1 > Len(pool.components) THEN <<"Panic">>
             ELSE <<"Some", pool.components[dense_data_index + 1]>>

\* A faulty get_component: the pool is looked up before the handle is checked.
get_component_pool_first(bs, T, entity) ==
    LET cell == ComponentMap_get(bs, T)
    IN  IF cell = <<"None">>
        THEN [ret |-> <<"Err", "UnregisteredComponent">>, borrows |-> bs]
        ELSE IF ~is_valid(entity_allocator, entity)
        THEN [ret |-> <<"Err", "InvalidEntity">>, borrows |-> bs]
        ELSE IF cell = <<"Panic">>
        THEN [ret |-> <<"Panic">>, borrows |-> bs]
        ELSE LET found == pool_lookup(component_pools[T], entity)
             IN  [ret |-> found,
                  borrows |-> IF found[1] = "Some" THEN AcquireRef(bs, T) ELSE bs]

\* World::get_component under borrow state bs: the value returned and the
\* borrow state afterwards (a Ref stays outstanding only with Some).
get_component(bs, T, entity) ==
    IF ~is_valid(entity_allocator, entity)
    THEN [ret |-> <<"Err", "InvalidEntity">>, borrows |-> bs]
    ELSE LET cell == ComponentMap_get(bs, T)
         IN  IF cell = <<"None">>
             THEN [ret |-> <<"Err", "UnregisteredComponent">>, borrows |-> bs]
             ELSE IF cell = <<"Panic">>
             THEN [ret |-> <<"Panic">>, borrows |-> bs]
             ELSE LET found == pool_lookup(component_pools[T], entity)
                  IN  [ret |-> found,
                       borrows |-> IF found[1] = "Some" THEN AcquireRef(bs, T) ELSE bs]

\* World::get_component_mut under borrow state bs.
get_component_mut(bs, T, entity) ==
    IF ~is_valid(entity_allocator, entity)
    THEN [ret |-> <<"Err", "InvalidEntity">>, borrows |-> bs]
    ELSE LET cell == ComponentMap_get_mut(bs, T)
         IN  IF cell = <<"None">>
             THEN [ret |-> <<"Err", "UnregisteredComponent">>, borrows |-> bs]
             ELSE IF cell = <<"Panic">>
             THEN [ret |-> <<"Panic">>, borrows |-> bs]
             ELSE LET found == pool_lookup(component_pools[T], entity)
                  IN  [ret |-> found,
                       borrows |-> IF found[1] = "Some" THEN AcquireRefMut(bs, T) ELSE bs]

\* Query::execute / Query::execute_mut for the types q[k..]: each lookup is
\* `.expect(..)`ed, so an Err panics; the first None ends the candidate and
\* drops the accessors taken for it (back to borrow state bs0).
RECURSIVE execute_from(_, _, _, _, _, _)
execute_from(bs0, bs, q, k, mutable, entity) ==
    IF k > Len(q) THEN [ret |-> <<"Some">>, borrows |-> bs]
    ELSE LET r == IF mutable THEN get_component_mut(bs, q[k], entity)
                             ELSE get_component(bs, q[k], entity)
         IN  IF r.ret[1] \in {"Err", "Panic"} THEN [ret |-> <<"Panic">>, borrows |-> bs0]
             ELSE IF r.ret[1] = "None" THEN [ret |-> <<"None">>, borrows |-> bs0]
             ELSE execute_from(bs0, r.borrows, q, k + 1, mutable, entity)

execute(bs, q, mutable, entity) == execute_from(bs, bs, q, 1, mutable, entity)

\* A faulty choice of the driving pool: the first type's dense array, whatever
\* its length.
min_by_key_first(q, k) == component_pools[q[k]].entities_with_component

\* A faulty min_by_key: among equally short arrays the last one wins.
RECURSIVE min_by_key_last(_, _)
min_by_key_last(q, k) ==
    IF k = Len(q) THEN component_pools[q[k]].entities_with_component
    ELSE LET rest == min_by_key_last(q, k + 1)
             here == component_pools[q[k]].entities_with_component
         IN  IF Len(here) < Len(rest) THEN here ELSE rest

\* The eager part of World::query / World::query_mut: every pool of the
\* query is looked up (`.unwrap()`) and borrowed to clone its dense entity
\* array; min_by_key keeps the first of the shortest arrays.
RECURSIVE min_by_key(_, _)
min_by_key(q, k) ==
    IF k = Len(q) THEN component_pools[q[k]].entities_with_component
    ELSE LET rest == min_by_key(q, k + 1)
             here == component_pools[q[k]].entities_with_component
         IN  IF Len(here) <= Len(rest) THEN here ELSE rest

\* A faulty query: a type with no pool gives an empty result.
query_candidates_empty(bs, q) ==
    IF \E k \in 1..Len(q) : q[k] \notin DOMAIN component_pools
    THEN <<"Candidates", <<>>>>
    ELSE IF \E k \in 1..Len(q) : ComponentMap_get(bs, q[k]) # <<"Ref">>
    THEN <<"Panic">>
    ELSE <<"Candidates", min_by_key(q, 1)>>

query_candidates(bs, q) ==
    IF \E k \in 1..Len(q) : ComponentMap_get(bs, q[k]) # <<"Ref">>
    THEN <<"Panic">>
    ELSE <<"Candidates", min_by_key(q, 1)>>

\* A faulty iterator: candidates are taken from the back of the array.
RECURSIVE iter_next_from_back(_, _, _, _)
iter_next_from_back(bs, q, mutable, cands) ==
    IF cands = <<>> THEN [ret |-> <<"End">>, borrows |-> bs, cands |-> <<>>]
    ELSE LET last == cands[Len(cands)]
             front == SubSeq(cands, 1, Len(cands) - 1)
             x == execute(bs, q, mutable, last)
         IN  IF x.ret[1] = "Panic"
             THEN [ret |-> <<"Panic">>, borrows |-> bs, cands |-> cands]
             ELSE IF x.ret[1] = "None" THEN iter_next_from_back(bs, q, mutable, front)
             ELSE [ret |-> <<"Item", last>>, borrows |-> x.borrows, cands |-> front]

\* Iterator::next of the filter_map returned by query / query_mut: candidates
\* are taken in order until one executes to Some.
RECURSIVE iter_next(_, _, _, _)
iter_next(bs, q, mutable, cands) ==
    IF cands = <<>> THEN [ret |-> <<"End">>, borrows |-> bs, cands |-> <<>>]
    ELSE LET x == execute(bs, q, mutable, Head(cands))
         IN  IF x.ret[1] = "Panic"
             THEN [ret |-> <<"Panic">>, borrows |-> bs, cands |-> cands]
             ELSE IF x.ret[1] = "None" THEN iter_next(bs, q, mutable, Tail(cands))
             ELSE [ret |-> <<"Item", Head(cands)>>, borrows |-> x.borrows,
                   cands |-> Tail(cands)]

\* The iterator driven to its end with every item's accessors dropped before
\* the next item is asked for, keeping the entities (as
\* `.map(|(entity, _)| entity).collect()` does).
RECURSIVE collect(_, _, _, _)
collect(bs, q, mutable, cands) ==
    LET n == iter_next(bs, q, mutable, cands)
    IN  IF n.ret[1] = "Panic" THEN <<"Panic">>
        ELSE IF n.ret[1] = "End" THEN <<"Entities", <<>>>>
        ELSE LET rest == collect(bs, q, mutable, n.cands)
             IN  IF rest[1] = "Panic" THEN rest
                 ELSE <<"Entities", <<n.ret[2]>> \o rest[2]>>

\* A faulty add_component: a missing pool is passed over in silence.
add_component_unregistered_ok(bs, T, entity, component) ==
    IF ~is_valid(entity_allocator, entity)
    THEN [ret |-> <<"Err", "InvalidEntity">>, component_pools |-> component_pools]
    ELSE LET cell == ComponentMap_get_mut(bs, T)
         IN  IF cell = <<"None">>
             THEN [ret |-> <<"Ok">>, component_pools |-> component_pools]
             ELSE IF cell = <<"Panic">> \/ entity.id + 1 > Len(component_pools[T].all_entities)
             THEN [ret |-> <<"Panic">>, component_pools |-> component_pools]
             ELSE IF component_pools[T].all_entities[entity.id + 1] # <<>>
             THEN [ret |-> <<"Ok">>, component_pools |-> component_pools]
             ELSE [ret |-> <<"Ok">>,
                   component_pools |-> [component_pools EXCEPT ![T] =
                       pool_insert(component_pools[T], entity, component)]]

\* A faulty add_component: the handle is not checked against the allocator.
add_component_any_handle(bs, T, entity, component) ==
    LET cell == ComponentMap_get_mut(bs, T)
    IN  IF cell = <<"None">>
        THEN [ret |-> <<"Err", "UnregisteredComponent">>,
              component_pools |-> component_pools]
        ELSE IF cell = <<"Panic">> \/ entity.id + 1 > Len(component_pools[T].all_entities)
        THEN [ret |-> <<"Panic">>, component_pools |-> component_pools]
        ELSE IF component_pools[T].all_entities[entity.id + 1] # <<>>
        THEN [ret |-> <<"Ok">>, component_pools |-> component_pools]
        ELSE [ret |-> <<"Ok">>,
              component_pools |-> [component_pools EXCEPT ![T] =
                  pool_insert(component_pools[T], entity, component)]]

\* A faulty add_component: the sparse slot is not looked at, the component
\* is stored again over an existing one.
add_component_overwrite(bs, T, entity, component) ==
    IF ~is_valid(entity_allocator, entity)
    THEN [ret |-> <<"Err", "InvalidEntity">>, component_pools |-> component_pools]
    ELSE LET cell == ComponentMap_get_mut(bs, T)
         IN  IF cell = <<"None">>
             THEN [ret |-> <<"Err", "UnregisteredComponent">>,
                   component_pools |-> component_pools]
             ELSE IF cell = <<"Panic">> \/ entity.id + 1 > Len(component_pools[T].all_entities)
             THEN [ret |-> <<"Panic">>, component_pools |-> component_pools]
             ELSE [ret |-> <<"Ok">>,
                   component_pools |-> [component_pools EXCEPT ![T] =
                       pool_insert(component_pools[T], entity, component)]]

\* World::add_component under borrow state bs: the Result and the pools
\* afterwards.  The RefMut of the pool is dropped on return.
add_component(bs, T, entity, component) ==
    IF ~is_valid(entity_allocator, entity)
    THEN [ret |-> <<"Err", "InvalidEntity">>, component_pools |-> component_pools]
    ELSE LET cell == ComponentMap_get_mut(bs, T)
         IN  IF cell = <<"None">>
             THEN [ret |-> <<"Err", "UnregisteredComponent">>,
                   component_pools |-> component_pools]
             ELSE IF cell = <<"Panic">> \/ entity.id + 1 > Len(component_pools[T].all_entities)
             THEN [ret |-> <<"Panic">>, component_pools |-> component_pools]
             ELSE IF component_pools[T].all_entities[entity.id + 1] # <<>>
             THEN [ret |-> <<"Ok">>, component_pools |-> component_pools]
             ELSE [ret |-> <<"Ok">>,
                   component_pools |-> [component_pools EXCEPT ![T] =
                       pool_insert(component_pools[T], entity, component)]]

\* A faulty add_components: a failed insertion undoes the earlier ones.
RECURSIVE add_components_rollback_from(_, _, _, _, _)
add_components_rollback_from(bs, pools0, pools, bundle, entity) ==
    IF bundle = <<>> THEN [ret |-> <<"Unit">>, component_pools |-> pools]
    ELSE LET T == Head(bundle)[1]
             r == add_component(bs, T, entity, Head(bundle)[2])
         IN  IF r.ret # <<"Ok">>
             THEN [ret |-> <<"Panic">>, component_pools |-> pools0]
             ELSE add_components_rollback_from(bs, pools0,
                      [pools EXCEPT ![T] = r.component_pools[T]], Tail(bundle), entity)

add_components_rollback(bs, pools, bundle, entity) ==
    add_components_rollback_from(bs, pools, pools, bundle, entity)

\* Bundle::add_components for a bundle given as the sequence of its fields
\* <<type, component>> in declaration order, from pools `pools` on: one
\* add_component(..).unwrap() per field, so the first Err panics with the
\* earlier insertions in place.  The fields of a bundle have distinct types,
\* so the pool a field goes to is still as it was before the bundle.
RECURSIVE add_components(_, _, _, _)
add_components(bs, pools, bundle, entity) ==
    IF bundle = <<>> THEN [ret |-> <<"Unit">>, component_pools |-> pools]
    ELSE LET T == Head(bundle)[1]
             r == add_component(bs, T, entity, Head(bundle)[2])
         IN  IF r.ret # <<"Ok">>
             THEN [ret |-> <<"Panic">>, component_pools |-> pools]
             ELSE add_components(bs, [pools EXCEPT ![T] = r.component_pools[T]],
                                 Tail(bundle), entity)

\* A faulty remove_component: the sparse entry of the object moved into the
\* vacated dense slot is not fixed up.
remove_component_no_fixup(bs, T, entity) ==
    IF ~is_valid(entity_allocator, entity)
    THEN [ret |-> <<"Err", "InvalidEntity">>, component_pools |-> component_pools]
    ELSE LET cell == ComponentMap_get_mut(bs, T)
         IN  IF cell = <<"None">>
             THEN [ret |-> <<"Err", "UnregisteredComponent">>,
                   component_pools |-> component_pools]
             ELSE IF cell = <<"Panic">> \/ entity.id + 1 > Len(component_pools[T].all_entities)
             THEN [ret |-> <<"Panic">>, component_pools |-> component_pools]
             ELSE IF component_pools[T].all_entities[entity.id + 1] = <<>>
             THEN [ret |-> <<"Ok">>, component_pools |-> component_pools]
             ELSE LET pool == component_pools[T]
                      dense_data_index == pool.all_entities[entity.id + 1][1]
                      last == Len(pool.entities_with_component)
                  IN  [ret |-> <<"Ok">>,
                       component_pools |-> [component_pools EXCEPT ![T] =
                          [all_entities |->
                              [pool.all_entities EXCEPT ![entity.id + 1] = <<>>],
                           entities_with_component |->
                              SubSeq([pool.entities_with_component
                                         EXCEPT ![dense_data_index + 1] =
                                            pool.entities_with_component[last]],
                                     1, last - 1),
                           components |->
                              SubSeq([pool.components
                                         EXCEPT ![dense_data_index + 1] = pool.components[last]],
                                     1, last - 1)]]]

\* World::remove_component under borrow state bs, as the specification
\* describes it (the method is called by collision_cleanup_system, its body is
\* not part of the sources): the dense slot of the handle is swapped with the
\* last dense slot, the sparse entry of the object moved is fixed up, the
\* dense arrays shrink by one and the sparse slot of the handle is cleared.
\* Validity, registration and borrowing are taken to be handled as in
\* add_component, and removing what an object does not own to be a no-op.
remove_component(bs, T, entity) ==
    IF ~is_valid(entity_allocator, entity)
    THEN [ret |-> <<"Err", "InvalidEntity">>, component_pools |-> component_pools]
    ELSE LET cell == ComponentMap_get_mut(bs, T)
         IN  IF cell = <<"None">>
             THEN [ret |-> <<"Err", "UnregisteredComponent">>,
                   component_pools |-> component_pools]
             ELSE IF cell = <<"Panic">> \/ entity.id + 1 > Len(component_pools[T].all_entities)
             THEN [ret |-> <<"Panic">>, component_pools |-> component_pools]
             ELSE IF component_pools[T].all_entities[entity.id + 1] = <<>>
             THEN [ret |-> <<"Ok">>, component_pools |-> component_pools]
             ELSE LET pool == component_pools[T]
                      dense_data_index == pool.all_entities[entity.id + 1][1]
                      last == Len(pool.entities_with_component)
                      moved == pool.entities_with_component[last]
                  IN  [ret |-> <<"Ok">>,
                       component_pools |-> [component_pools EXCEPT ![T] =
                          [all_entities |->
                              [[pool.all_entities EXCEPT ![moved.id + 1] = <<dense_data_index>>]
                                  EXCEPT ![entity.id + 1] = <<>>],
                           entities_with_component |->
                              SubSeq([pool.entities_with_component
                                         EXCEPT ![dense_data_index + 1] = moved],
                                     1, last - 1),
                           components |->
                              SubSeq([pool.components
                                         EXCEPT ![dense_data_index + 1] = pool.components[last]],
                                     1, last - 1)]]]

\* ------------------------------------------------------------ input sets
\* The handles a caller can hold: every Entity this World has issued, and
\* one of another World whose id was never issued here.
Issued ==
    UNION {{Entity(i, g) : g \in 0..entity_allocator.entries[i + 1].generation} :
              i \in 0..(Len(entity_allocator.entries) - 1)}

NeverIssued == Entity(Len(entity_allocator.entries), 0)

Handles == Issued \cup {NeverIssued}

\* Most iterators alive at once.
MaxIters == 1

RemoveAt(s, k) == SubSeq(s, 1, k - 1) \o SubSeq(s, k + 1, Len(s))

WithinBorrowBound(bs) ==
    \A T \in Types : bs[T].readers <= MaxBorrows /\ bs[T].writers <= MaxBorrows

\* ------------------------------------------------------------------ state
\* World::new, and the caller holding nothing.
Init ==
    /\ entity_allocator = EntityAllocator_new
    /\ component_pools = <<>>
    /\ borrows = [T \in Types |-> Unborrowed]
    /\ iters = <<>>
    /\ panicked = FALSE
    /\ owned = {}
    /\ call = <<"new">>
    /\ ret = <<"World">>

\* A panic: the operation c aborts the program, nothing else is changed.
Abort(c) ==
    /\ panicked' = TRUE
    /\ call' = c
    /\ ret' = <<"Panic">>
    /\ UNCHANGED <<entity_allocator, component_pools, borrows, iters, owned>>

\* allocate stays within MaxEntities entries and MaxGeneration.
AllocateWithin(max_entities, max_generation) ==
    IF entity_allocator.available_entity_ids = <<>>
    THEN Len(entity_allocator.entries) < max_entities
    ELSE LET ids == entity_allocator.available_entity_ids
         IN  entity_allocator.entries[ids[Len(ids)] + 1].generation < max_generation

AllocateWithinBounds == AllocateWithin(MaxEntities, MaxGeneration)

\* EntityAllocator::allocate called on its own.
Allocate ==
    /\ ~panicked
    /\ AllocateWithinBounds
    /\ LET r == allocate(entity_allocator)
       IN  /\ entity_allocator' = r.alloc
           /\ call' = <<"allocate">>
           /\ ret' = <<"Entity", r.entity>>
    /\ UNCHANGED <<component_pools, borrows, iters, panicked, owned>>

\* Most entries pushed beyond the IdSpace indices an EntityId can name.
MaxBeyond == 1

\* EntityAllocator::allocate called on an allocator that holds about IdSpace
\* entries. Where the subtraction overflows the build decides: the call
\* panics (after the push) or the index wraps.
AllocateNearLimit ==
    /\ ~panicked
    /\ AllocateWithin(IdSpace + MaxBeyond, MaxGeneration)
    /\ LET r == allocate(entity_allocator)
       IN  /\ entity_allocator' = r.alloc
           /\ call' = <<"allocate">>
           /\ \/ /\ ret' = <<"Entity", r.entity>>
                 /\ panicked' = panicked
              \/ /\ subtract_overflows(entity_allocator)
                 /\ ret' = <<"Panic">>
                 /\ panicked' = TRUE
    /\ UNCHANGED <<component_pools, borrows, iters, owned>>

\* EntityAllocator::deallocate called on its own.
Deallocate(entity) ==
    /\ ~panicked
    /\ Len(entity_allocator.available_entity_ids) < MaxFree
    /\ LET r == deallocate(entity_allocator, entity)
       IN  /\ entity_allocator' = r.alloc
           /\ call' = <<"deallocate", entity>>
           /\ ret' = r.result
    /\ UNCHANGED <<component_pools, borrows, iters, panicked, owned>>

\* EntityAllocator::is_valid called on its own.
IsValid(entity) ==
    /\ ~panicked
    /\ call' = <<"is_valid", entity>>
    /\ ret' = <<"Bool", is_valid(entity_allocator, entity)>>
    /\ UNCHANGED <<entity_allocator, component_pools, borrows, iters, panicked, owned>>

\* EntityAllocator::is_alive called on its own.
IsAlive(entity) ==
    /\ ~panicked
    /\ call' = <<"is_alive", entity>>
    /\ ret' = <<"Bool", is_alive(entity_allocator, entity)>>
    /\ UNCHANGED <<entity_allocator, component_pools, borrows, iters, panicked, owned>>

\* World::create_entity
DoCreateEntity ==
    /\ LET r == allocate(entity_allocator)
       IN  /\ entity_allocator' = r.alloc
           /\ component_pools' = [T \in DOMAIN component_pools |->
                                     register_entity(component_pools[T], r.entity)]
           /\ call' = <<"create_entity">>
           /\ ret' = <<"Entity", r.entity>>
    /\ UNCHANGED <<borrows, iters, panicked, owned>>

CreateEntity ==
    /\ ~panicked
    /\ NoOutstanding
    /\ AllocateWithinBounds
    /\ DoCreateEntity

\* Most reuses of one index where objects are only created and destroyed.
MaxReuse == 2

\* World::create_entity, an index reused up to MaxReuse times.
CreateEntityReusing ==
    /\ ~panicked
    /\ NoOutstanding
    /\ AllocateWithin(MaxEntities, MaxReuse)
    /\ DoCreateEntity

\* A faulty destroy_entity: the sparse slot of the index is cleared in every
\* pool (an eager purge).
DestroyEntity_purge(entity) ==
    /\ ~panicked
    /\ NoOutstanding
    /\ Len(entity_allocator.available_entity_ids) < MaxFree
    /\ entity_allocator' = deallocate(entity_allocator, entity).alloc
    /\ component_pools' =
          [T \in DOMAIN component_pools |->
              IF entity.id + 1 <= Len(component_pools[T].all_entities)
              THEN [component_pools[T] EXCEPT !.all_entities[entity.id + 1] = <<>>]
              ELSE component_pools[T]]
    /\ call' = <<"destroy_entity", entity>>
    /\ ret' = <<"Unit">>
    /\ UNCHANGED <<borrows, iters, panicked, owned>>

\* A faulty destroy_entity: the Result of deallocate is unwrapped.
DestroyEntity_unwrap(entity) ==
    /\ ~panicked
    /\ NoOutstanding
    /\ Len(entity_allocator.available_entity_ids) < MaxFree
    /\ LET r == deallocate(entity_allocator, entity)
       IN  IF r.result # <<"Ok">>
           THEN Abort(<<"destroy_entity", entity>>)
           ELSE /\ entity_allocator' = r.alloc
                /\ call' = <<"destroy_entity", entity>>
                /\ ret' = <<"Unit">>
                /\ UNCHANGED <<component_pools, borrows, iters, panicked, owned>>

\* World::destroy_entity: whatever deallocate returns is logged, not returned.
DestroyEntity(entity) ==
    /\ ~panicked
    /\ NoOutstanding
    /\ Len(entity_allocator.available_entity_ids) < MaxFree
    /\ entity_allocator' = deallocate(entity_allocator, entity).alloc
    /\ call' = <<"destroy_entity", entity>>
    /\ ret' = <<"Unit">>
    /\ UNCHANGED <<component_pools, borrows, iters, panicked, owned>>

\* A faulty register_component: a type that is registered keeps its pool.
RegisterComponent_keep(T) ==
    /\ ~panicked
    /\ NoOutstanding
    /\ component_pools' = [U \in DOMAIN component_pools \cup {T} |->
                              IF U \in DOMAIN component_pools
                              THEN component_pools[U]
                              ELSE ComponentPool_new(get_num_entries(entity_allocator))]
    /\ owned' = owned
    /\ call' = <<"register_component", T>>
    /\ ret' = <<"Unit">>
    /\ UNCHANGED <<entity_allocator, borrows, iters, panicked>>

\* World::register_component::<T>: ComponentMap::insert replaces the cell.
RegisterComponent(T) ==
    /\ ~panicked
    /\ NoOutstanding
    /\ component_pools' = [U \in DOMAIN component_pools \cup {T} |->
                              IF U = T
                              THEN ComponentPool_new(get_num_entries(entity_allocator))
                              ELSE component_pools[U]]
    /\ owned' = {o \in owned : o[1] # T}
    /\ call' = <<"register_component", T>>
    /\ ret' = <<"Unit">>
    /\ UNCHANGED <<entity_allocator, borrows, iters, panicked>>

\* World::add_component::<T>(entity, component)
AddComponent(T, entity, component) ==
    /\ ~panicked
    /\ LET r == add_component(borrows, T, entity, component)
       IN  IF r.ret = <<"Panic">>
           THEN Abort(<<"add_component", T, entity, component>>)
           ELSE /\ component_pools' = r.component_pools
                /\ owned' = IF r.component_pools # component_pools
                            THEN owned \cup {<<T, entity, component>>}
                            ELSE owned
                /\ call' = <<"add_component", T, entity, component>>
                /\ ret' = r.ret
                /\ UNCHANGED <<entity_allocator, borrows, iters, panicked>>

\* World::get_component::<T>(entity); a Some keeps its Ref outstanding.
GetComponent(T, entity) ==
    /\ ~panicked
    /\ LET r == get_component(borrows, T, entity)
       IN  IF r.ret = <<"Panic">>
           THEN Abort(<<"get_component", T, entity>>)
           ELSE /\ WithinBorrowBound(r.borrows)
                /\ borrows' = r.borrows
                /\ call' = <<"get_component", T, entity>>
                /\ ret' = r.ret
                /\ UNCHANGED <<entity_allocator, component_pools, iters, panicked, owned>>

\* World::get_component_mut::<T>(entity); a Some keeps its RefMut outstanding.
GetComponentMut(T, entity) ==
    /\ ~panicked
    /\ LET r == get_component_mut(borrows, T, entity)
       IN  IF r.ret = <<"Panic">>
           THEN Abort(<<"get_component_mut", T, entity>>)
           ELSE /\ WithinBorrowBound(r.borrows)
                /\ borrows' = r.borrows
                /\ call' = <<"get_component_mut", T, entity>>
                /\ ret' = r.ret
                /\ UNCHANGED <<entity_allocator, component_pools, iters, panicked, owned>>

\* The caller drops a Ref<T> it holds.
DropRef(T) ==
    /\ ~panicked
    /\ borrows[T].readers > 0
    /\ borrows' = [borrows EXCEPT ![T].readers = @ - 1]
    /\ call' = <<"drop_ref", T>>
    /\ ret' = <<"Unit">>
    /\ UNCHANGED <<entity_allocator, component_pools, iters, panicked, owned>>

\* A faulty drop of a RefMut: the cell's borrow flag is not given back.
DropRefMut_leak(T) ==
    /\ ~panicked
    /\ borrows[T].writers > 0
    /\ call' = <<"drop_ref_mut", T>>
    /\ ret' = <<"Unit">>
    /\ UNCHANGED <<entity_allocator, component_pools, borrows, iters, panicked, owned>>

\* The caller drops a RefMut<T> it holds.
DropRefMut(T) ==
    /\ ~panicked
    /\ borrows[T].writers > 0
    /\ borrows' = [borrows EXCEPT ![T].writers = @ - 1]
    /\ call' = <<"drop_ref_mut", T>>
    /\ ret' = <<"Unit">>
    /\ UNCHANGED <<entity_allocator, component_pools, iters, panicked, owned>>

\* World::query::<Q>() (mutable = FALSE) and World::query_mut::<Q>()
\* (mutable = TRUE): the candidates are fixed now, the filter_map is lazy.
StartQuery(q, mutable) ==
    LET c == query_candidates(borrows, q)
    IN  IF c = <<"Panic">>
        THEN Abort(<<"query", q, mutable>>)
        ELSE /\ iters' = Append(iters, [q |-> q, mutable |-> mutable, cands |-> c[2]])
             /\ call' = <<"query", q, mutable>>
             /\ ret' = <<"Iterator">>
             /\ UNCHANGED <<entity_allocator, component_pools, borrows, panicked, owned>>

Query(q, mutable) ==
    /\ ~panicked
    /\ Len(iters) < MaxIters
    /\ StartQuery(q, mutable)

\* Deepest nesting of read-only query loops.
MaxNested == 2

\* A read-only query started inside the loop over another query, as
\* collision_detection_system nests two loops over the same query.
NestedQuery(q) ==
    /\ ~panicked
    /\ iters # <<>>
    /\ Len(iters) < MaxNested
    /\ StartQuery(q, FALSE)

\* Iterator::next on the k-th live iterator; an exhausted iterator is dropped
\* (the end of a `for` loop).
IterNext(k) ==
    /\ ~panicked
    /\ k \in 1..Len(iters)
    /\ LET it == iters[k]
           n == iter_next(borrows, it.q, it.mutable, it.cands)
       IN  IF n.ret = <<"Panic">>
           THEN Abort(<<"next", k, it.q, it.mutable>>)
           ELSE /\ WithinBorrowBound(n.borrows)
                /\ borrows' = n.borrows
                /\ iters' = IF n.ret = <<"End">>
                            THEN RemoveAt(iters, k)
                            ELSE [iters EXCEPT ![k].cands = n.cands]
                /\ call' = <<"next", k, it.q, it.mutable>>
                /\ ret' = n.ret
                /\ UNCHANGED <<entity_allocator, component_pools, panicked, owned>>

\* The caller drops the k-th live iterator before its end (`break`).
DropIter(k) ==
    /\ ~panicked
    /\ k \in 1..Len(iters)
    /\ iters' = RemoveAt(iters, k)
    /\ call' = <<"drop_iter">>
    /\ ret' = <<"Unit">>
    /\ UNCHANGED <<entity_allocator, component_pools, borrows, panicked, owned>>

\* query / query_mut consumed whole by a loop that lets go of each item
\* before the next: `.map(|(entity, _)| entity).collect()`.
Collect(q, mutable) ==
    /\ ~panicked
    /\ LET c == query_candidates(borrows, q)
           r == IF c = <<"Panic">> THEN c ELSE collect(borrows, q, mutable, c[2])
       IN  IF r = <<"Panic">>
           THEN Abort(<<"collect", q, mutable>>)
           ELSE /\ call' = <<"collect", q, mutable>>
                /\ ret' = r
                /\ UNCHANGED <<entity_allocator, component_pools, borrows, iters,
                               panicked, owned>>

\* A statement that reads a component and lets go of the Ref at once, as
\* `world.get_component::<T>(&entity).unwrap().is_some()` does.
ReadComponent(T, entity) ==
    /\ ~panicked
    /\ LET r == get_component(borrows, T, entity)
       IN  IF r.ret = <<"Panic">>
           THEN Abort(<<"read_component", T, entity>>)
           ELSE /\ call' = <<"read_component", T, entity>>
                /\ ret' = r.ret
                /\ UNCHANGED <<entity_allocator, component_pools, borrows, iters,
                               panicked, owned>>

Next ==
    \/ CreateEntity
    \/ \E entity \in Handles : DestroyEntity(entity)
    \/ \E T \in Types : RegisterComponent(T)
    \/ \E T \in Types, entity \in Handles : \E component \in ValuesOf(T) :
          AddComponent(T, entity, component)
    \/ \E T \in Types, entity \in Handles : GetComponent(T, entity)
    \/ \E T \in Types, entity \in Handles : GetComponentMut(T, entity)
    \/ \E T \in Types : DropRef(T)
    \/ \E T \in Types : DropRefMut(T)
    \/ \E q \in Queries, mutable \in BOOLEAN : Query(q, mutable)
    \/ \E k \in 1..MaxIters : IterNext(k)
    \/ \E k \in 1..MaxIters : DropIter(k)
    \/ \E q \in Queries, mutable \in BOOLEAN : Collect(q, mutable)

Spec == Init /\ [][Next]_vars

\* The World driven by statements that keep no accessor between them.
NextWorld ==
    \/ CreateEntity
    \/ \E entity \in Handles : DestroyEntity(entity)
    \/ \E T \in Types : RegisterComponent(T)
    \/ \E T \in Types, entity \in Handles : \E component \in ValuesOf(T) :
          AddComponent(T, entity, component)
    \/ \E T \in Types, entity \in Handles : ReadComponent(T, entity)
    \/ \E q \in Queries : Collect(q, FALSE)

SpecWorld == Init /\ [][NextWorld]_vars

\* The allocator alone.
NextAlloc ==
    \/ Allocate
    \/ \E entity \in Handles : Deallocate(entity)
    \/ \E entity \in Handles : IsValid(entity)
    \/ \E entity \in Handles : IsAlive(entity)

SpecAlloc == Init /\ [][NextAlloc]_vars

\* An allocator after IdSpace - 1 calls of allocate: indices 0..IdSpace - 2 are
\* alive at generation 0 and the free list is empty.
InitLimit ==
    /\ entity_allocator =
          [entries |-> [k \in 1..(IdSpace - 1) |-> [is_alive |-> TRUE, generation |-> 0]],
           available_entity_ids |-> <<>>]
    /\ component_pools = <<>>
    /\ borrows = [T \in Types |-> Unborrowed]
    /\ iters = <<>>
    /\ panicked = FALSE
    /\ owned = {}
    /\ call = <<"allocate">>
    /\ ret = <<"Entity", Entity(IdSpace - 2, 0)>>

\* The first handle issued and the handle of the last index of EntityId.
LimitHandles == {Entity(0, 0), Entity(IdSpace - 1, 0)}

NextLimit ==
    \/ AllocateNearLimit
    \/ \E entity \in LimitHandles : Deallocate(entity)
    \/ \E entity \in LimitHandles : IsValid(entity)
    \/ \E entity \in LimitHandles : IsAlive(entity)

SpecLimit == InitLimit /\ [][NextLimit]_vars

\* A World set up by
\*   e0 = create_entity(); e1 = create_entity(); destroy_entity(e1);
\*   e1' = create_entity();
\*   register_component::<A>(); register_component::<B>();
\*   add_component(e0, v1: A); add_component(e1', v2: A)
\* so that e0 = (0, 0) and e1' = (1, 1) are valid and own an A, e1 = (1, 0) is
\* stale and pool B is empty.
InitBorrow ==
    /\ entity_allocator =
          [entries |-> <<[is_alive |-> TRUE, generation |-> 0],
                         [is_alive |-> TRUE, generation |-> 1]>>,
           available_entity_ids |-> <<>>]
    /\ component_pools =
          [T \in Types |->
              IF T = "A"
              THEN [all_entities |-> <<<<0>>, <<1>>>>,
                    entities_with_component |-> <<Entity(0, 0), Entity(1, 1)>>,
                    components |-> <<"v1", "v2">>]
              ELSE [all_entities |-> <<<<>>, <<>>>>,
                    entities_with_component |-> <<>>,
                    components |-> <<>>]]
    /\ borrows = [T \in Types |-> Unborrowed]
    /\ iters = <<>>
    /\ panicked = FALSE
    /\ owned = {<<"A", Entity(0, 0), "v1">>, <<"A", Entity(1, 1), "v2">>}
    /\ call = <<"add_component", "A", Entity(1, 1), "v2">>
    /\ ret = <<"Ok">>

\* The `&self` methods, which may run while accessors and iterators are
\* outstanding, on the World that was set up.
NextBorrow ==
    \/ \E T \in Types, entity \in Handles : \E component \in ValuesOf(T) :
          AddComponent(T, entity, component)
    \/ \E T \in Types, entity \in Handles : GetComponent(T, entity)
    \/ \E T \in Types, entity \in Handles : GetComponentMut(T, entity)
    \/ \E T \in Types : DropRef(T)
    \/ \E T \in Types : DropRefMut(T)
    \/ \E q \in Queries, mutable \in BOOLEAN : Query(q, mutable)
    \/ \E k \in 1..MaxIters : IterNext(k)
    \/ \E k \in 1..MaxIters : DropIter(k)

SpecBorrow == InitBorrow /\ [][NextBorrow]_vars

\* The read-only side of the `&self` methods with nested query loops, and
\* add_component as the loops' body calls it.
NextRead ==
    \/ \E T \in Types, entity \in Handles : \E component \in ValuesOf(T) :
          AddComponent(T, entity, component)
    \/ \E T \in Types, entity \in Handles : GetComponent(T, entity)
    \/ \E T \in Types : DropRef(T)
    \/ \E q \in Queries : Query(q, FALSE)
    \/ \E q \in Queries : NestedQuery(q)
    \/ \E k \in 1..MaxNested : IterNext(k)
    \/ \E k \in 1..MaxNested : DropIter(k)

SpecRead == InitBorrow /\ [][NextRead]_vars

\* Objects created and destroyed, and types registered, nothing else.
NextCreate ==
    \/ CreateEntityReusing
    \/ \E entity \in Handles : DestroyEntity(entity)
    \/ \E T \in Types : RegisterComponent(T)

SpecCreate == Init /\ [][NextCreate]_vars

\* A World being set up while query and query_mut are called on it.
NextQuery ==
    \/ CreateEntity
    \/ \E T \in Types : RegisterComponent(T)
    \/ \E T \in Types, entity \in Handles : \E component \in ValuesOf(T) :
          AddComponent(T, entity, component)
    \/ \E q \in Queries, mutable \in BOOLEAN : Query(q, mutable)
    \/ \E k \in 1..MaxIters : IterNext(k)
    \/ \E k \in 1..MaxIters : DropIter(k)

SpecQuery == Init /\ [][NextQuery]_vars

\* A World being set up and torn down while components are added and
\* accessed one at a time; type A gets registered, type B never does.
NextAccess ==
    \/ CreateEntity
    \/ \E entity \in Handles : DestroyEntity(entity)
    \/ RegisterComponent("A")
    \/ \E T \in Types, entity \in Handles : \E component \in ValuesOf(T) :
          AddComponent(T, entity, component)
    \/ \E T \in Types, entity \in Handles : GetComponent(T, entity)
    \/ \E T \in Types, entity \in Handles : GetComponentMut(T, entity)
    \/ \E T \in Types : DropRef(T)
    \/ \E T \in Types : DropRefMut(T)

SpecAccess == Init /\ [][NextAccess]_vars

\* The bundles a caller can build: an A then a B, as BulletBundle is a Bullet,
\* a Transform, a Velocity, a Sprite and a Collider in that order.
Bundles == {<<<<"A", component>>, <<"B", "v1">>>> : component \in ValuesOf("A")}

\* World::add_bundle(entity, bundle); a panic of an unwrap leaves the World
\* with the insertions made before it.
AddBundle(entity, bundle) ==
    /\ ~panicked
    /\ NoOutstanding
    /\ LET r == add_components(borrows, component_pools, bundle, entity)
       IN  /\ component_pools' = r.component_pools
           /\ owned' = owned \cup
                 {<<f[1], entity, f[2]>> : f \in
                     {g \in Range(bundle) :
                         /\ g[1] \in DOMAIN component_pools
                         /\ r.component_pools[g[1]] # component_pools[g[1]]}}
           /\ panicked' = (r.ret = <<"Panic">>)
           /\ call' = <<"add_bundle", entity, bundle>>
           /\ ret' = r.ret
    /\ UNCHANGED <<entity_allocator, borrows, iters>>

\* Objects created, destroyed and given bundles while types are registered.
NextBundle ==
    \/ CreateEntity
    \/ \E entity \in Handles : DestroyEntity(entity)
    \/ \E T \in Types : RegisterComponent(T)
    \/ \E entity \in Handles, bundle \in Bundles : AddBundle(entity, bundle)
    \/ \E T \in Types, entity \in Handles : ReadComponent(T, entity)

SpecBundle == Init /\ [][NextBundle]_vars

\* World::remove_component::<T>(entity).
RemoveComponent(T, entity) ==
    /\ ~panicked
    /\ LET r == remove_component(borrows, T, entity)
       IN  IF r.ret = <<"Panic">>
           THEN Abort(<<"remove_component", T, entity>>)
           ELSE /\ component_pools' = r.component_pools
                /\ owned' = IF r.component_pools # component_pools
                            THEN {o \in owned : ~(o[1] = T /\ o[2] = entity)}
                            ELSE owned
                /\ call' = <<"remove_component", T, entity>>
                /\ ret' = r.ret
                /\ UNCHANGED <<entity_allocator, borrows, iters, panicked>>

\* Objects of the World in which components are removed.
RemoveObjects == 3

\* A World set up by register_component::<A>(), register_component::<B>()
\* and RemoveObjects calls of create_entity: no object owns a component yet.
InitRemove ==
    /\ entity_allocator =
          [entries |-> [i \in 1..RemoveObjects |-> [is_alive |-> TRUE, generation |-> 0]],
           available_entity_ids |-> <<>>]
    /\ component_pools =
          [T \in Types |-> [all_entities |-> [i \in 1..RemoveObjects |-> <<>>],
                            entities_with_component |-> <<>>,
                            components |-> <<>>]]
    /\ borrows = [T \in Types |-> Unborrowed]
    /\ iters = <<>>
    /\ panicked = FALSE
    /\ owned = {}
    /\ call = <<"create_entity">>
    /\ ret = <<"Entity", Entity(RemoveObjects - 1, 0)>>

\* Components added to, removed from and read through the handles of that
\* World, and its types registered once more, no accessor held between the
\* calls.
NextRemove ==
    \/ \E T \in Types, entity \in Handles : \E component \in ValuesOf(T) :
          AddComponent(T, entity, component)
    \/ \E T \in Types, entity \in Handles : RemoveComponent(T, entity)
    \/ \E T \in Types, entity \in Handles : ReadComponent(T, entity)
    \/ \E T \in Types : RegisterComponent(T)

SpecRemove == InitRemove /\ [][NextRemove]_vars

\* SpecWorld reaches the World of InitBorrow: as an invariant of SpecWorld
\* this is violated, by the set-up sequence given above.
BorrowWorldNotReached ==
    ~ (/\ entity_allocator.entries = <<[is_alive |-> TRUE, generation |-> 0],
                                        [is_alive |-> TRUE, generation |-> 1]>>
       /\ entity_allocator.available_entity_ids = <<>>
       /\ DOMAIN component_pools = Types
       /\ component_pools["A"].entities_with_component = <<Entity(0, 0), Entity(1, 1)>>
       /\ component_pools["A"].components = <<"v1", "v2">>
       /\ component_pools["A"].all_entities = <<<<0>>, <<1>>>>
       /\ component_pools["B"].entities_with_component = <<>>
       /\ component_pools["B"].all_entities = <<<<>>, <<>>>>
       /\ call = <<"add_component", "A", Entity(1, 1), "v2">>
       /\ ret = <<"Ok">>)

\* ------------------------------------------------------------ properties
\* An object owns a T when a T was stored by add_component through its handle.
Owns(T, entity) == \E o \in owned : o[1] = T /\ o[2] = entity

ValidHandles == {e \in Handles : is_valid(entity_allocator, e)}

SlotSet(pool, i) == i + 1 <= Len(pool.all_entities) /\ pool.all_entities[i + 1] # <<>>

\* C1: get_component on a valid handle never returns a value that was
\* inserted under another handle: whatever a read returns was stored by
\* add_component through the very handle that is read.
C1_NoStaleDataThroughValidHandle ==
    (call[1] = "read_component" /\ ret[1] = "Some")
        => <<call[2], call[3], ret[2]>> \in owned

\* C2: with A and B registered and no accessor outstanding, a query for
\* (A, B) yields exactly the valid handles that own both an A and a B, each
\* once.
C2_QueryYieldsExactlyTheOwners ==
    (/\ call[1] = "collect"
     /\ Len(call[2]) = 2
     /\ {"A", "B"} \subseteq DOMAIN component_pools)
        => /\ ret[1] = "Entities"
           /\ \A k1, k2 \in 1..Len(ret[2]) : ret[2][k1] = ret[2][k2] => k1 = k2
           /\ Range(ret[2]) = {e \in ValidHandles : Owns("A", e) /\ Owns("B", e)}

\* C3: the handle allocate returns is valid; deallocate of a valid handle e1
\* makes it invalid; the next allocate then returns e1's index with
\* generation e1.generation + 1, valid, while e1 stays invalid.
C3_AllocateDeallocateReallocate ==
    [][/\ (call'[1] = "allocate" /\ entity_allocator' # entity_allocator)
             => is_valid(entity_allocator', ret'[2])
       /\ (/\ call'[1] = "deallocate"
           /\ entity_allocator' # entity_allocator
           /\ is_valid(entity_allocator, call'[2]))
             => LET e1 == call'[2]
                    next == allocate(entity_allocator')
                IN  /\ ~is_valid(entity_allocator', e1)
                    /\ next.entity = Entity(e1.id, e1.generation + 1)
                    /\ is_valid(next.alloc, next.entity)
                    /\ ~is_valid(next.alloc, e1)]_vars

\* C3 witness: allocate has just handed out a recycled index: the new handle
\* is valid and its predecessor is not.
C3_Witness ==
    /\ call[1] = "allocate"
    /\ ret[2].generation >= 1
    /\ is_valid(entity_allocator, ret[2])
    /\ ~is_valid(entity_allocator, Entity(ret[2].id, ret[2].generation - 1))

\* C4: two distinct handles that share an index are never both valid.
C4_OneValidHandlePerIndex ==
    \A h1, h2 \in [id : 0..MaxEntities, generation : 0..MaxGeneration] :
        (h1.id = h2.id /\ h1 # h2)
            => ~(is_valid(entity_allocator, h1) /\ is_valid(entity_allocator, h2))

\* C4 witness: an index has been issued under two generations and its entry
\* is alive.
C4_Witness ==
    \E h1, h2 \in Issued :
        h1.id = h2.id /\ h1 # h2 /\ is_alive(entity_allocator, h1)

\* C5: deallocate of a handle whose index is already dead returns success and
\* leaves the allocator (entries and free list) as the first deallocate left it.
C5_DeallocateDeadIsIdempotent ==
    [][(/\ call'[1] = "deallocate"
        /\ call'[2].id + 1 <= Len(entity_allocator.entries)
        /\ ~is_alive(entity_allocator, call'[2])
        /\ <<entity_allocator, call, ret>>' # <<entity_allocator, call, ret>>)
          => /\ ret' = <<"Ok">>
             /\ entity_allocator' = entity_allocator]_vars

\* C6: destroy_entity with a handle that is not valid leaves every valid
\* handle valid and the allocator's entries and free list unchanged.
C6_DestroyInvalidIsHarmless ==
    [][(/\ call'[1] = "destroy_entity"
        /\ ~is_valid(entity_allocator, call'[2])
        /\ <<entity_allocator, call, ret>>' # <<entity_allocator, call, ret>>)
          => /\ \A e \in ValidHandles : is_valid(entity_allocator', e)
             /\ entity_allocator' = entity_allocator]_vars

\* C7: for every registered pool and every index holding a live object, the
\* sparse slot is set iff that object owns a T, and a set slot names a dense
\* position within bounds whose handle has that index.
C7_SparseSlotIffOwned ==
    \A T \in DOMAIN component_pools :
        \A i \in 0..(Len(entity_allocator.entries) - 1) :
            LET pool == component_pools[T]
                entry == entity_allocator.entries[i + 1]
            IN  /\ entry.is_alive
                      => (SlotSet(pool, i) <=> Owns(T, Entity(i, entry.generation)))
                /\ SlotSet(pool, i)
                      => LET p == pool.all_entities[i + 1][1]
                         IN  /\ p + 1 <= Len(pool.entities_with_component)
                             /\ p + 1 <= Len(pool.components)
                             /\ pool.entities_with_component[p + 1].id = i

\* C8: in every pool the two dense arrays have the same length, which is the
\* number of set sparse slots; no two sparse slots name the same dense
\* position and no index occurs twice in the dense handle array.
C8_DenseArraysParallel ==
    \A T \in DOMAIN component_pools :
        LET pool == component_pools[T]
            set_slots == {k \in 1..Len(pool.all_entities) : pool.all_entities[k] # <<>>}
            dense == pool.entities_with_component
        IN  /\ Len(dense) = Len(pool.components)
            /\ Len(dense) = Cardinality(set_slots)
            /\ \A k1, k2 \in set_slots :
                   pool.all_entities[k1] = pool.all_entities[k2] => k1 = k2
            /\ \A p1, p2 \in 1..Len(dense) : dense[p1].id = dense[p2].id => p1 = p2

\* C8 witness: a pool holds two dense entries, one of them added through a
\* recycled index.
C8_Witness ==
    \E T \in DOMAIN component_pools :
        /\ Len(component_pools[T].entities_with_component) = 2
        /\ \E p \in 1..2 : component_pools[T].entities_with_component[p].generation >= 1

\* C9: add_component on an object that already owns a T returns Ok and
\* changes nothing: the pool keeps its single entry for the handle and
\* get_component still returns the value inserted first.
C9_ReinsertionIsNoOp ==
    [][(/\ call'[1] = "add_component"
        /\ <<component_pools, call, ret, panicked>>' # <<component_pools, call, ret, panicked>>
        /\ is_valid(entity_allocator, call'[3])
        /\ Owns(call'[2], call'[3]))
          => LET T == call'[2]
                 entity == call'[3]
                 dense == component_pools'[T].entities_with_component
             IN  /\ ret' = <<"Ok">>
                 /\ component_pools' = component_pools
                 /\ Cardinality({p \in 1..Len(dense) : dense[p] = entity}) = 1
                 /\ \E o \in owned :
                       /\ o[1] = T /\ o[2] = entity
                       /\ is_valid(entity_allocator', entity)
                       /\ pool_lookup(component_pools'[T], entity) = <<"Some", o[3]>>]_vars

\* C9 witness: add_component has returned Ok for a valid handle that owns a T
\* with a value other than the one offered.
C9_Witness ==
    /\ call[1] = "add_component"
    /\ ret = <<"Ok">>
    /\ is_valid(entity_allocator, call[3])
    /\ \E o \in owned : o[1] = call[2] /\ o[2] = call[3] /\ o[3] # call[4]

\* C10 as stated: a request for a write accessor of T made while another
\* accessor of T is outstanding fails fatally, be it get_component_mut or
\* add_component through a valid handle, query_mut called while a RefMut is
\* outstanding, or the iteration of a query_mut over T while a Ref is.
C10_WriteRequestAlwaysFatal ==
    [][\A T \in Types :
          /\ (/\ call'[1] \in {"get_component_mut", "add_component"}
              /\ call'[2] = T
              /\ is_valid(entity_allocator, call'[3])
              /\ borrows[T] # Unborrowed)
                => panicked'
          /\ (/\ call'[1] = "query" /\ call'[3]
              /\ T \in Range(call'[2])
              /\ borrows[T].writers > 0)
                => panicked'
          /\ (/\ call'[1] = "next" /\ call'[4]
              /\ T \in Range(call'[3])
              /\ borrows[T].readers > 0)
                => panicked']_vars

\* C10 amended: a write accessor of T is handed out only while no accessor of
\* T is outstanding.  While one is outstanding, get_component_mut and
\* add_component panic for a valid handle and return InvalidEntity, without
\* touching the pool, for a handle that is not valid; query_mut panics at the
\* call when a write accessor of one of its types is outstanding, and its
\* iterator panics at the first candidate it examines when T is the first
\* type of the query.
C10_NoSecondAccessor ==
    [][\A T \in Types :
          /\ borrows'[T].writers > borrows[T].writers => borrows[T] = Unborrowed
          /\ (/\ call'[1] \in {"get_component_mut", "add_component"}
              /\ call'[2] = T
              /\ borrows[T] # Unborrowed)
                => IF is_valid(entity_allocator, call'[3])
                   THEN panicked'
                   ELSE /\ ret' = <<"Err", "InvalidEntity">>
                        /\ ~panicked'
                        /\ borrows' = borrows
                        /\ component_pools' = component_pools
          /\ (/\ call'[1] = "query" /\ call'[3]
              /\ T \in Range(call'[2])
              /\ borrows[T].writers > 0)
                => panicked'
          /\ (/\ call'[1] = "next" /\ call'[4]
              /\ call'[3][1] = T
              /\ borrows[T] # Unborrowed
              /\ iters[call'[2]].cands # <<>>)
                => panicked']_vars

\* C10 witness: get_component_mut has panicked on a pool of which a Ref is
\* outstanding.
C10_Witness ==
    /\ panicked
    /\ call[1] = "get_component_mut"
    /\ borrows[call[2]].readers > 0

\* C11: in every reachable state each component pool has either no write
\* accessor outstanding (and any number of read accessors), or exactly one
\* write accessor and no read accessor: a reader never coexists with a writer
\* and two writers never coexist.
C11_ReadersXorOneWriter ==
    \A T \in Types :
        \/ borrows[T].writers = 0
        \/ borrows[T].writers = 1 /\ borrows[T].readers = 0

\* One pool with its single writer while the other pool has two readers.
C11_Witness ==
    \E T, U \in Types :
        /\ borrows[T] = [readers |-> 0, writers |-> 1]
        /\ borrows[U] = [readers |-> 2, writers |-> 0]

\* C12: aliasing is enforced per pool and not per object. While a write
\* accessor of T is outstanding, get_component / get_component_mut of T
\* through any valid handle (so also a handle other than the one the writer
\* was obtained through) and any query naming T fail fatally; a request for
\* another registered type T2 has the outcome it would have with no accessor
\* of T outstanding.
C12_AliasingIsPerPool ==
    [][\A T \in Types :
          (/\ borrows[T].writers > 0
           /\ <<call, ret, borrows, iters, panicked>>' # <<call, ret, borrows, iters, panicked>>)
          =>
          /\ (/\ call'[1] \in {"get_component", "get_component_mut"}
              /\ is_valid(entity_allocator, call'[3]))
             => IF call'[2] = T
                THEN panicked'
                ELSE LET bs == [borrows EXCEPT ![T] = Unborrowed]
                         r == IF call'[1] = "get_component"
                              THEN get_component(bs, call'[2], call'[3])
                              ELSE get_component_mut(bs, call'[2], call'[3])
                     IN  IF r.ret = <<"Panic">>
                         THEN panicked'
                         ELSE ~panicked' /\ ret' = r.ret
          /\ (call'[1] = "query" /\ T \in Range(call'[2])) => panicked'
      ]_vars

\* A request for T through a valid handle that owns no T has failed fatally
\* on the single writer of T, which therefore belongs to another object.
C12_Witness ==
    /\ panicked
    /\ call[1] \in {"get_component", "get_component_mut"}
    /\ is_valid(entity_allocator, call[3])
    /\ ~Owns(call[2], call[3])
    /\ borrows[call[2]] = [readers |-> 0, writers |-> 1]
    /\ \E U \in Types : U # call[2] /\ borrows[U].readers > 0

\* The component types a read request names.
RequestTypes(c) ==
    CASE c[1] = "get_component" -> {c[2]}
      [] c[1] = "query" -> Range(c[2])
      [] c[1] = "next" -> Range(c[3])
      [] OTHER -> {}

\* C13: any number of read accessors of one type may be outstanding. A read
\* request (get_component through a valid handle, a read-only query, the next
\* item of a read-only query, nested in another read-only query or not) made
\* while no write accessor of its types is outstanding never fails fatally,
\* however many read accessors are outstanding: get_component returns the
\* looked-up value or 'no value', query returns its iterator, next returns an
\* item or the end. (The one fatal outcome left to next is a candidate that is
\* no longer valid, which is not a conflict of accessors.)
C13_ReadersNeverConflict ==
    [][(/\ <<call, ret, borrows, iters, panicked>>' # <<call, ret, borrows, iters, panicked>>
        /\ \/ call'[1] = "get_component" /\ is_valid(entity_allocator, call'[3])
           \/ call'[1] = "query" /\ call'[3] = FALSE
           \/ call'[1] = "next" /\ call'[4] = FALSE
        /\ \A T \in RequestTypes(call') : borrows[T].writers = 0)
       => \/ /\ ~panicked'
             /\ call'[1] = "get_component"
                  => /\ ret' = pool_lookup(component_pools[call'[2]], call'[3])
                     /\ ret'[1] = "Some"
                          => borrows'[call'[2]].readers = borrows[call'[2]].readers + 1
             /\ call'[1] = "query" => ret' = <<"Iterator">>
             /\ call'[1] = "next" => ret'[1] \in {"Item", "End"}
          \/ /\ call'[1] = "next"
             /\ \E k \in 1..Len(iters[call'[2]].cands) :
                   ~is_valid(entity_allocator, iters[call'[2]].cands[k])
      ]_vars

\* Two loops over the same read-only query, the inner one has just yielded an
\* item while the item of the outer one is still held.
C13_Witness ==
    /\ Len(iters) = 2
    /\ iters[1].q = iters[2].q
    /\ ~iters[1].mutable /\ ~iters[2].mutable
    /\ call[1] = "next" /\ call[2] = 2
    /\ ret[1] = "Item"
    /\ borrows["A"] = [readers |-> 2, writers |-> 0]

\* C14: add_component through a handle that is not valid (destroyed, of a
\* stale generation, or with an index never issued) returns
\* Err(InvalidEntity) and changes neither a pool nor the allocator, whether
\* the type is registered or not.
C14_AddThroughInvalidHandle ==
    [][(/\ call'[1] = "add_component"
        /\ <<component_pools, call, ret, panicked>>' # <<component_pools, call, ret, panicked>>
        /\ ~is_valid(entity_allocator, call'[3]))
       => /\ ret' = <<"Err", "InvalidEntity">>
          /\ ~panicked'
          /\ component_pools' = component_pools
          /\ entity_allocator' = entity_allocator
          /\ owned' = owned
      ]_vars

\* add_component on a registered type was refused for a handle of generation
\* 0 whose index has been recycled and is alive at generation 1.
C14_Witness ==
    /\ call[1] = "add_component"
    /\ ret = <<"Err", "InvalidEntity">>
    /\ call[2] \in DOMAIN component_pools
    /\ call[3].id < Len(entity_allocator.entries)
    /\ call[3].generation = 0
    /\ entity_allocator.entries[call[3].id + 1] = [is_alive |-> TRUE, generation |-> 1]

\* C15: add_component for a type that was never registered fails and stores
\* nothing: for every object (valid handle) the result is
\* Err(UnregisteredComponent), no pool is created or changed and the type
\* stays unregistered. (Through a handle that is not valid the call fails too,
\* with the InvalidEntity of C14.)
C15_AddUnregisteredType ==
    [][(/\ call'[1] = "add_component"
        /\ <<component_pools, call, ret, panicked>>' # <<component_pools, call, ret, panicked>>
        /\ call'[2] \notin DOMAIN component_pools)
       => /\ ret' = IF is_valid(entity_allocator, call'[3])
                    THEN <<"Err", "UnregisteredComponent">>
                    ELSE <<"Err", "InvalidEntity">>
          /\ ~panicked'
          /\ component_pools' = component_pools
          /\ owned' = owned
          /\ entity_allocator' = entity_allocator
      ]_vars

\* add_component of an unregistered type was refused for a valid handle
\* while the other type is registered and holds a component.
C15_Witness ==
    /\ call[1] = "add_component"
    /\ ret = <<"Err", "UnregisteredComponent">>
    /\ is_valid(entity_allocator, call[3])
    /\ call[2] \notin DOMAIN component_pools
    /\ \E U \in DOMAIN component_pools : component_pools[U].components # <<>>

\* C16: get_component of a registered type returns Err(InvalidEntity) when
\* the handle is destroyed or stale; for a valid handle it returns 'no value'
\* exactly when the object owns no T, and otherwise the T value that was
\* added to that object. Error, 'no value' and a value are distinct results.
C16_GetComponentOutcome ==
    (call[1] = "read_component" /\ call[2] \in DOMAIN component_pools)
    => IF ~is_valid(entity_allocator, call[3])
       THEN ret = <<"Err", "InvalidEntity">>
       ELSE IF Owns(call[2], call[3])
       THEN \E o \in owned : o[1] = call[2] /\ o[2] = call[3] /\ ret = <<"Some", o[3]>>
       ELSE ret = <<"None">>

\* C17: add_component(h, v) through a valid handle of an object that owns no
\* T (T registered, no accessor of T outstanding) returns Ok, appends exactly
\* the entry (h, v) to the end of T's dense arrays, records that position in
\* the sparse slot of h's index, makes get_component(h) return v, and leaves
\* every other slot of T and every other pool as they were.
C17_AddAppendsOneEntry ==
    [][(/\ call'[1] = "add_component"
        /\ <<component_pools, call, ret, panicked>>' # <<component_pools, call, ret, panicked>>
        /\ call'[2] \in DOMAIN component_pools
        /\ borrows[call'[2]] = Unborrowed
        /\ is_valid(entity_allocator, call'[3])
        /\ ~Owns(call'[2], call'[3]))
       => LET T == call'[2]
              entity == call'[3]
              old == component_pools[T]
              new == component_pools'[T]
          IN  /\ ret' = <<"Ok">>
              /\ new.entities_with_component = Append(old.entities_with_component, entity)
              /\ new.components = Append(old.components, call'[4])
              /\ new.all_entities =
                    [old.all_entities EXCEPT ![entity.id + 1] = <<Len(old.components)>>]
              /\ pool_lookup(new, entity) = <<"Some", call'[4]>>
              /\ \A U \in DOMAIN component_pools \ {T} :
                    component_pools'[U] = component_pools[U]
      ]_vars

\* C19: immediately after create_entity returns handle h, h owns no
\* component: in every registered pool the sparse slot of h's index is unset
\* and get_component(h) returns 'no value', for a fresh index and for the
\* reused index of a destroyed object alike.
C19_CreatedOwnsNothing ==
    call[1] = "create_entity"
    => \A T \in DOMAIN component_pools :
          /\ ~SlotSet(component_pools[T], ret[2].id)
          /\ get_component(borrows, T, ret[2]).ret = <<"None">>

\* C18: in every reachable state the sparse array of every registered pool
\* is as long as the allocator's number of entries (the indices ever issued),
\* whether the type was registered before or after the objects were created;
\* so the index of every valid handle is in bounds of every sparse array.
C18_SparseLengthIsEntryCount ==
    \A T \in DOMAIN component_pools :
        /\ Len(component_pools[T].all_entities) = get_num_entries(entity_allocator)
        /\ \A entity \in ValidHandles :
              entity.id + 1 <= Len(component_pools[T].all_entities)

\* create_entity has just issued the fresh index 1 with both types registered
\* before it, one of them already holding a component of the object at
\* index 0: the pools were grown by the call.
C18_Witness ==
    /\ call = <<"create_entity">>
    /\ ret = <<"Entity", Entity(1, 0)>>
    /\ DOMAIN component_pools = Types
    /\ \E T \in Types : component_pools[T].entities_with_component # <<>>

\* C20: allocate with a non-empty free list returns the most recently
\* deallocated index (the last of the free list, the index of a deallocate
\* that came just before) with the generation stored for that index plus
\* one, takes that index off the free list and leaves the number of entries
\* unchanged; with an empty free list it appends one entry and returns the
\* handle (number of entries before the call, generation 0).
C20_AllocateIsLifo ==
    [][(call'[1] = "allocate" /\ entity_allocator' # entity_allocator)
       => LET free == entity_allocator.available_entity_ids
              entries == entity_allocator.entries
              n == Len(free)
          IN  IF free # <<>>
              THEN /\ ret' = <<"Entity", Entity(free[n], entries[free[n] + 1].generation + 1)>>
                   /\ (call[1] = "deallocate" /\ ret = <<"Ok">>) => ret'[2].id = call[2].id
                   /\ get_num_entries(entity_allocator') = get_num_entries(entity_allocator)
                   /\ entity_allocator'.available_entity_ids = SubSeq(free, 1, n - 1)
                   /\ entity_allocator'.entries =
                         [entries EXCEPT ![free[n] + 1] =
                             [is_alive |-> TRUE, generation |-> @.generation + 1]]
              ELSE /\ ret' = <<"Entity", Entity(get_num_entries(entity_allocator), 0)>>
                   /\ entity_allocator'.entries =
                         Append(entries, [is_alive |-> TRUE, generation |-> 0])
                   /\ entity_allocator'.available_entity_ids = <<>>
      ]_vars

\* Of the two freed indices 0 and 1, allocate has handed out index 1, freed
\* last, at generation 1; index 0 is still on the free list.
C20_Witness ==
    /\ call = <<"allocate">>
    /\ ret = <<"Entity", Entity(1, 1)>>
    /\ entity_allocator.available_entity_ids = <<0>>
    /\ get_num_entries(entity_allocator) = 2

\* C21: a handle this World issued is not valid right after destroy_entity
\* was called on it, and a handle this World issued that is not valid is not
\* made valid by any step: so a destroyed handle never becomes valid again,
\* however often create_entity / destroy_entity reuse its index.
C21_DestroyedNeverValidAgain ==
    [][/\ (call'[1] = "destroy_entity" /\ call'[2] \in Issued)
            => ~is_valid(entity_allocator', call'[2])
       /\ \A entity \in Issued :
            ~is_valid(entity_allocator, entity) => ~is_valid(entity_allocator', entity)
      ]_vars

\* create_entity has just reused an index twice freed: the handle of
\* generation 0 is not valid, the entry is alive at generation 1 and the index
\* is on the free list once more.
C21_Witness ==
    /\ call = <<"create_entity">>
    /\ ret[2].generation = 1
    /\ ~is_valid(entity_allocator, Entity(ret[2].id, 0))
    /\ is_valid(entity_allocator, ret[2])
    /\ \E k \in 1..Len(entity_allocator.available_entity_ids) :
          entity_allocator.available_entity_ids[k] = ret[2].id

\* C22: destroy_entity never fails fatally and hands no error to its caller,
\* whatever the handle: valid, already destroyed, of a stale generation, or
\* with an index never issued (deallocate's OutOfBounds is swallowed and the
\* allocator is left as it was).
C22_DestroyNeverFails ==
    [][call'[1] = "destroy_entity"
       => /\ ~panicked'
          /\ ret' = <<"Unit">>
          /\ call'[2].id >= get_num_entries(entity_allocator)
               => /\ deallocate(entity_allocator, call'[2]).result = <<"Err", "OutOfBounds">>
                  /\ entity_allocator' = entity_allocator
      ]_vars

\* destroy_entity has returned for a handle whose index was never issued, in
\* a World that has issued an index and destroyed its object.
C22_Witness ==
    /\ call[1] = "destroy_entity"
    /\ call[2].id >= get_num_entries(entity_allocator)
    /\ ret = <<"Unit">>
    /\ ~panicked
    /\ entity_allocator.available_entity_ids # <<>>

\* C23: destroy_entity changes the allocator only: the entry of the handle's
\* index is marked dead (its generation kept) and the index is pushed on the
\* free list, while every pool keeps its sparse array, its dense entity array
\* and its dense component array (lazy deletion).
C23_DestroyTouchesAllocatorOnly ==
    [][call'[1] = "destroy_entity"
       => /\ component_pools' = component_pools
          /\ call'[2].id < get_num_entries(entity_allocator)
               => /\ entity_allocator'.entries =
                        [entity_allocator.entries EXCEPT ![call'[2].id + 1].is_alive = FALSE]
                  /\ entity_allocator'.available_entity_ids =
                        Append(entity_allocator.available_entity_ids, call'[2].id)
      ]_vars

\* destroy_entity has returned for a handle that is still in a dense entity
\* array, with its component, and whose sparse slot is still set.
C23_Witness ==
    /\ call[1] = "destroy_entity"
    /\ ~is_alive(entity_allocator, call[2])
    /\ \E T \in DOMAIN component_pools :
          /\ SlotSet(component_pools[T], call[2].id)
          /\ \E k \in 1..Len(component_pools[T].entities_with_component) :
                component_pools[T].entities_with_component[k] = call[2]

\* C24: a query examines at most as many candidates as the smallest dense
\* array among its types holds: the iterator it returns carries no more
\* candidates than any pool of the query has entries, and every call of next
\* takes the candidates it examines off the front, each examined once.
C24_MinimalScan ==
    [][/\ (call'[1] = "query" /\ ~panicked')
            => LET q == call'[2]
                   it == iters'[Len(iters')]
               IN  /\ Len(iters') = Len(iters) + 1
                   /\ \A k \in 1..Len(q) :
                         Len(it.cands) <= Len(component_pools[q[k]].entities_with_component)
       /\ (call'[1] = "next" /\ ~panicked')
            => LET old == iters[call'[2]].cands
                   new == IF ret' = <<"End">> THEN <<>> ELSE iters'[call'[2]].cands
               IN  IF old = <<>> THEN new = <<>>
                   ELSE \E n \in 1..Len(old) : new = SubSeq(old, n + 1, Len(old))
      ]_vars

\* A query over two types has just been started with the single entity of the
\* smaller pool as its candidates, the other pool holding two.
C24_Witness ==
    /\ call[1] = "query"
    /\ Len(call[2]) = 2
    /\ Len(iters) = 1
    /\ Len(iters[1].cands) = 1
    /\ \E T \in Range(call[2]) : Len(component_pools[T].entities_with_component) = 2

\* C25: the items of a query come in the order of the driving pool's dense
\* entity array as it was when the query was called. The candidates of a new
\* iterator are the dense entity array of one of the query's types, of least
\* length; every item is the next candidate in that order that was not passed
\* over; and no other call (an add_component in between) alters the
\* candidates of a live iterator. So the items form a subsequence of that
\* array, in insertion order and not in order of index.
C25_YieldInDenseOrder ==
    [][/\ (call'[1] = "query" /\ ~panicked')
            => LET q == call'[2]
                   it == iters'[Len(iters')]
               IN  \E T \in Range(q) :
                      /\ it.cands = component_pools[T].entities_with_component
                      /\ \A U \in Range(q) :
                            Len(it.cands) <= Len(component_pools[U].entities_with_component)
       /\ (call'[1] = "next" /\ ~panicked' /\ ret'[1] = "Item")
            => LET old == iters[call'[2]].cands
                   new == iters'[call'[2]].cands
               IN  \E n \in 1..Len(old) :
                      /\ old[n] = ret'[2]
                      /\ new = SubSeq(old, n + 1, Len(old))
       /\ call'[1] \notin {"query", "next", "drop_iter"} => iters' = iters
      ]_vars

\* A query driven by pool B, whose dense order is (1,1) then (0,0), has just
\* yielded (0,0) as its last item.
C25_Witness ==
    /\ call[1] = "next"
    /\ ret = <<"Item", Entity(0, 0)>>
    /\ Len(iters) = 1
    /\ iters[1].q[1] = "B"
    /\ iters[1].cands = <<>>
    /\ component_pools["B"].entities_with_component = <<Entity(1, 1), Entity(0, 0)>>

\* C26: remove_component is a swap-remove. Removing the T of a valid handle
\* that owns one returns Ok and leaves one dense entry fewer, the last entry
\* moved into the vacated position; the handle owns no T afterwards (its
\* sparse slot is unset); every other owner is still in the dense array and
\* is read with the value it had; every sparse slot that is set names a dense
\* position below the new length, which holds the slot's own index; the
\* other pools are untouched. With dense order [o0, o1, o2], removing o0's
\* leaves the two entries [o2, o1].
C26_SwapRemove ==
    [][(/\ call'[1] = "remove_component"
        /\ call'[2] \in DOMAIN component_pools
        /\ is_valid(entity_allocator, call'[3])
        /\ Owns(call'[2], call'[3]))
       => LET T == call'[2]
              entity == call'[3]
              old == component_pools[T]
              new == component_pools'[T]
              last == Len(old.entities_with_component)
              d == old.all_entities[entity.id + 1][1]
          IN  /\ ret' = <<"Ok">>
              /\ Len(new.entities_with_component) = last - 1
              /\ Len(new.components) = last - 1
              /\ new.entities_with_component =
                    SubSeq([old.entities_with_component
                               EXCEPT ![d + 1] = old.entities_with_component[last]],
                           1, last - 1)
              /\ ~SlotSet(new, entity.id)
              /\ pool_lookup(new, entity) = <<"None">>
              /\ \A k \in 1..last :
                    LET other == old.entities_with_component[k]
                    IN  other # entity
                        => /\ other \in Range(new.entities_with_component)
                           /\ pool_lookup(new, other) = pool_lookup(old, other)
                           /\ <<T, other, pool_lookup(new, other)[2]>> \in owned'
              /\ \A i \in 0..(Len(new.all_entities) - 1) :
                    SlotSet(new, i)
                    => /\ new.all_entities[i + 1][1] < Len(new.entities_with_component)
                       /\ new.entities_with_component[new.all_entities[i + 1][1] + 1].id = i
              /\ \A U \in DOMAIN component_pools \ {T} :
                    component_pools'[U] = component_pools[U]
      ]_vars

\* Of three objects owning an A in dense order [o0, o1, o2] with values v1, v2,
\* v1, o0's A has just been removed: the dense order is [o2, o1].
C26_Witness ==
    /\ call = <<"remove_component", "A", Entity(0, 0)>>
    /\ ret = <<"Ok">>
    /\ component_pools["A"].entities_with_component = <<Entity(2, 0), Entity(1, 0)>>
    /\ component_pools["A"].components = <<"v1", "v2">>
    /\ component_pools["A"].all_entities = <<<<>>, <<1>>, <<0>>>>

\* C27: a bundle's insertions are made in the order of its fields and are
\* not undone. With the fields up to the first whose type is unregistered
\* (all of them if there is none) applied to a valid handle: the handle has a
\* component of each of those types afterwards, the one of the bundle where
\* the sparse slot of its index was unset; the pools of the later fields are
\* as before; and the call fails fatally exactly when a field's type is
\* unregistered. Through a handle that is not valid the first insertion
\* fails and nothing is stored.
C27_BundleNotTransactional ==
    [][call'[1] = "add_bundle"
       => LET entity == call'[2]
              bundle == call'[3]
              failing == {k \in 1..Len(bundle) : bundle[k][1] \notin DOMAIN component_pools}
              done == {k \in 1..Len(bundle) : \A j \in failing : k < j}
          IN  IF ~is_valid(entity_allocator, entity)
              THEN panicked' /\ component_pools' = component_pools
              ELSE /\ panicked' <=> failing # {}
                   /\ DOMAIN component_pools' = DOMAIN component_pools
                   /\ \A k \in done :
                         LET T == bundle[k][1]
                         IN  /\ pool_lookup(component_pools'[T], entity)[1] = "Some"
                             /\ ~SlotSet(component_pools[T], entity.id)
                                  => /\ pool_lookup(component_pools'[T], entity)
                                          = <<"Some", bundle[k][2]>>
                                     /\ <<T, entity, bundle[k][2]>> \in owned'
                   /\ \A T \in DOMAIN component_pools :
                         (\A k \in done : bundle[k][1] # T)
                         => component_pools'[T] = component_pools[T]
      ]_vars

\* add_bundle has failed on its second field, B being unregistered, and the
\* A of its first field is owned by the handle.
C27_Witness ==
    /\ panicked
    /\ call[1] = "add_bundle"
    /\ DOMAIN component_pools = {"A"}
    /\ is_valid(entity_allocator, call[2])
    /\ pool_lookup(component_pools["A"], call[2]) = <<"Some", call[3][1][2]>>
    /\ <<"A", call[2], call[3][1][2]>> \in owned

\* C28: register_component of a type that is registered replaces its pool
\* and discards the data: afterwards the dense arrays of the type are empty,
\* its sparse array has one unset slot per index ever issued, get_component
\* returns 'no value' through every valid handle, and the other pools are as
\* they were.
C28_ReRegisterDiscards ==
    [][(call'[1] = "register_component" /\ call'[2] \in DOMAIN component_pools)
       => LET T == call'[2]
              new == component_pools'[T]
          IN  /\ new.entities_with_component = <<>>
              /\ new.components = <<>>
              /\ Len(new.all_entities) = get_num_entries(entity_allocator)
              /\ \A i \in 0..(get_num_entries(entity_allocator) - 1) : ~SlotSet(new, i)
              /\ \A entity \in ValidHandles :
                    /\ pool_lookup(new, entity) = <<"None">>
                    /\ ~\E o \in owned' : o[1] = T /\ o[2] = entity
              /\ \A U \in DOMAIN component_pools \ {T} :
                    component_pools'[U] = component_pools[U]
              /\ DOMAIN component_pools' = DOMAIN component_pools
      ]_vars

\* A, registered when the World was set up, has just been registered again:
\* its pool is empty while the objects keep their B.
C28_Witness ==
    /\ call = <<"register_component", "A">>
    /\ get_num_entries(entity_allocator) = RemoveObjects
    /\ component_pools["A"].entities_with_component = <<>>
    /\ component_pools["B"].entities_with_component # <<>>

\* C29: an accessor is released when it is dropped, and once no accessor of
\* T is outstanding a write accessor of T is handed out again: dropping a
\* Ref or RefMut takes exactly that one off the pool's count; get_component_mut
\* through a valid handle with no accessor of T outstanding does not fail and
\* leaves the single writer when it returns a value; and a query_mut whose
\* items are released before the next is asked for yields every item and
\* ends without a failure.
C29_ReleaseThenWriteAgain ==
    [][/\ call'[1] = "drop_ref_mut"
            => borrows' = [borrows EXCEPT ![call'[2]].writers = @ - 1]
       /\ call'[1] = "drop_ref"
            => borrows' = [borrows EXCEPT ![call'[2]].readers = @ - 1]
       /\ (/\ call'[1] = "get_component_mut"
           /\ is_valid(entity_allocator, call'[3])
           /\ borrows[call'[2]] = Unborrowed)
            => /\ ~panicked'
               /\ ret' = pool_lookup(component_pools[call'[2]], call'[3])
               /\ ret'[1] = "Some"
                    => borrows'[call'[2]] = [readers |-> 0, writers |-> 1]
       /\ (/\ call'[1] = "next"
           /\ call'[4] = TRUE
           /\ \A T \in Range(call'[3]) : borrows[T] = Unborrowed)
            => /\ ~panicked'
               /\ ret'[1] \in {"Item", "End"}
               /\ ret'[1] = "Item"
                    => \A T \in Range(call'[3]) : borrows'[T] = [readers |-> 0, writers |-> 1]
      ]_vars

\* A query_mut over A has yielded its second and last item, (1,1), whose
\* RefMut is the only accessor outstanding: the one of the first item was
\* released in between.
C29_Witness ==
    /\ call = <<"next", 1, <<"A">>, TRUE>>
    /\ ret = <<"Item", Entity(1, 1)>>
    /\ Len(iters) = 1
    /\ iters[1].cands = <<>>
    /\ borrows["A"] = [readers |-> 0, writers |-> 1]
    /\ ~panicked

\* C30: over every allocator operation the number of entries never goes
\* down and no index's stored generation goes down; deallocate leaves every
\* generation and the number of entries as they are; an allocate that reuses
\* an index raises that index's generation by exactly one and no other, and
\* an allocate that appends leaves the generations of the old entries.
C30_GenerationMonotonic ==
    [][LET old == entity_allocator.entries
           new == entity_allocator'.entries
           free == entity_allocator.available_entity_ids
       IN  /\ Len(new) >= Len(old)
           /\ \A i \in 1..Len(old) : new[i].generation >= old[i].generation
           /\ call'[1] = "deallocate"
                => /\ Len(new) = Len(old)
                   /\ \A i \in 1..Len(old) : new[i].generation = old[i].generation
           /\ (call'[1] = "allocate" /\ entity_allocator' # entity_allocator)
                => \A i \in 1..Len(old) :
                      new[i].generation =
                         IF free # <<>> /\ free[Len(free)] = i - 1
                         THEN old[i].generation + 1
                         ELSE old[i].generation
      ]_vars

\* deallocate has just marked dead an entry that is at generation 1, its
\* index having been reused once.
C30_Witness ==
    /\ call[1] = "deallocate"
    /\ ret = <<"Ok">>
    /\ entity_allocator.entries[call[2].id + 1] = [is_alive |-> FALSE, generation |-> 1]
    /\ call[2].generation = 1

\* C31: is_valid(h) holds exactly when h's index has an entry, the entry is
\* alive and its generation is h's; for a handle whose index was never issued
\* is_valid and is_alive are both false; is_valid(h) implies is_alive(h); and
\* the calls return these values.
C31_ValidIffLiveSameGeneration ==
    /\ \A h \in [id : 0..MaxEntities, generation : 0..MaxGeneration] :
          LET has_entry == h.id < get_num_entries(entity_allocator)
              entry == entity_allocator.entries[h.id + 1]
          IN  /\ is_valid(entity_allocator, h)
                   <=> (has_entry /\ entry.is_alive /\ entry.generation = h.generation)
              /\ is_alive(entity_allocator, h) <=> (has_entry /\ entry.is_alive)
              /\ ~has_entry
                   => ~is_valid(entity_allocator, h) /\ ~is_alive(entity_allocator, h)
              /\ is_valid(entity_allocator, h) => is_alive(entity_allocator, h)
    /\ call[1] = "is_valid"
         => ret = <<"Bool", /\ call[2].id < get_num_entries(entity_allocator)
                            /\ entity_allocator.entries[call[2].id + 1].is_alive
                            /\ entity_allocator.entries[call[2].id + 1].generation
                                  = call[2].generation>>
    /\ call[1] = "is_alive"
         => ret = <<"Bool", /\ call[2].id < get_num_entries(entity_allocator)
                            /\ entity_allocator.entries[call[2].id + 1].is_alive>>

\* is_valid has returned false for a handle of generation 0 whose index is
\* alive at generation 1: the handle is alive and not valid.
C31_Witness ==
    /\ call[1] = "is_valid"
    /\ ret = <<"Bool", FALSE>>
    /\ call[2].generation = 0
    /\ is_alive(entity_allocator, call[2])
    /\ entity_allocator.entries[call[2].id + 1].generation = 1

\* C32: a query over registered types, made with no accessor outstanding,
\* completes without a fatal failure and yields no handle that is not valid,
\* also when an object that owned a component of the driving pool has been
\* destroyed and its handle is still in that pool's dense entity array.
C32_QuerySkipsDestroyed ==
    (call[1] = "collect" /\ Range(call[2]) \subseteq DOMAIN component_pools)
    => /\ ~panicked
       /\ ret[1] = "Entities"
       /\ \A k \in 1..Len(ret[2]) : is_valid(entity_allocator, ret[2][k])

\* C33: in every reachable allocator state every index on the free list
\* refers to an entry that is dead, and no index is on the free list twice.
C33_FreeListDeadAndDistinct ==
    LET free == entity_allocator.available_entity_ids
    IN  /\ \A k \in 1..Len(free) :
              /\ free[k] < get_num_entries(entity_allocator)
              /\ ~entity_allocator.entries[free[k] + 1].is_alive
        /\ \A k1, k2 \in 1..Len(free) : free[k1] = free[k2] => k1 = k2

\* C34: create_entity leaves every handle that was valid before the call
\* valid, and the handle it returns is valid and has an index that no handle
\* valid before the call has.
C34_CreateKeepsValidHandles ==
    [][call'[1] = "create_entity"
       => /\ \A entity \in ValidHandles : is_valid(entity_allocator', entity)
          /\ is_valid(entity_allocator', ret'[2])
          /\ \A entity \in ValidHandles : entity.id # ret'[2].id
      ]_vars

\* The handle was returned by an earlier allocate: its index has an entry whose
\* generation has reached the handle's.
WasIssued(a, entity) ==
    /\ entity.id < Len(a.entries)
    /\ entity.generation <= a.entries[entity.id + 1].generation

\* C35: allocate does not abort, never returns a handle it returned earlier,
\* and with an empty free list returns the number of entries before the call
\* as index, also at the limit of the 16-bit index type.
C35_AllocateNeverRepeats ==
    [][call'[1] = "allocate"
       => /\ ~panicked'
          /\ ret'[1] = "Entity"
          /\ ~WasIssued(entity_allocator, ret'[2])
          /\ entity_allocator.available_entity_ids = <<>>
               => ret'[2].id = Len(entity_allocator.entries)
      ]_vars

\* The build with overflow checks has aborted in allocate.
AllocateAborted == call[1] = "allocate" /\ panicked

\* C36: query and query_mut that name a type with no registered pool abort the
\* call: they return neither an iterator nor an error value.
C36_QueryUnregisteredAborts ==
    (call[1] = "query" /\ ~(Range(call[2]) \subseteq DOMAIN component_pools))
        => panicked /\ ret = <<"Panic">>

\* query_mut::<(&A, &B)> was called with A registered and B not, and aborted.
C36_Witness ==
    /\ call = <<"query", <<"A", "B">>, TRUE>>
    /\ DOMAIN component_pools = {"A"}
    /\ panicked

\* query::<&A> was called with no type registered, and aborted.
QueryUnregisteredReached ==
    /\ call = <<"query", <<"A">>, FALSE>>
    /\ DOMAIN component_pools = {}
    /\ panicked

\* The entity has a component in the pool of every type of the query.
InEveryPool(q, entity) ==
    \A k \in 1..Len(q) : pool_lookup(component_pools[q[k]], entity)[1] = "Some"

\* C37: when the pools of a query have equally long dense arrays, the query
\* walks the dense array of the first type of the query: its result is that
\* array, in that order, without the entities that lack a component of the
\* query. The result is a function of the world, so two identical calls on an
\* unchanged world yield the same sequence.
C37_TieTakesFirstType ==
    (/\ call[1] = "collect"
     /\ ret[1] = "Entities"
     /\ \A k \in 1..Len(call[2]) :
           Len(component_pools[call[2][k]].entities_with_component)
             = Len(component_pools[call[2][1]].entities_with_component))
        => ret[2] = SelectSeq(component_pools[call[2][1]].entities_with_component,
                              LAMBDA entity : InEveryPool(call[2], entity))

\* query::<(&B, &A)> on pools that hold the same two entities in different
\* orders returned them in the order of pool B.
C37_Witness ==
    /\ call = <<"collect", <<"B", "A">>, FALSE>>
    /\ ret[1] = "Entities"
    /\ Len(ret[2]) = 2
    /\ ret[2] = component_pools["B"].entities_with_component
    /\ ret[2] # component_pools["A"].entities_with_component

\* C38: add_component, get_component and get_component_mut check the handle
\* before they look up the pool: for an unregistered type they return
\* Err(InvalidEntity) through a handle that is not valid and
\* Err(UnregisteredComponent) through a valid one, and
\* Err(UnregisteredComponent) is returned in no other case.
C38_ValidityBeforePoolLookup ==
    call[1] \in {"add_component", "get_component", "get_component_mut"}
        => /\ call[2] \notin DOMAIN component_pools
                => /\ ~panicked
                   /\ ret = IF is_valid(entity_allocator, call[3])
                            THEN <<"Err", "UnregisteredComponent">>
                            ELSE <<"Err", "InvalidEntity">>
           /\ ret = <<"Err", "UnregisteredComponent">>
                => /\ is_valid(entity_allocator, call[3])
                   /\ call[2] \notin DOMAIN component_pools

\* get_component through the handle of a destroyed object, for a type that is
\* not registered, returned Err(InvalidEntity).
C38_Witness ==
    /\ call[1] = "get_component"
    /\ call[2] \notin DOMAIN component_pools
    /\ is_alive(entity_allocator, call[3])
    /\ ~is_valid(entity_allocator, call[3])
    /\ ret = <<"Err", "InvalidEntity">>

\* The same case reached through get_component_mut and through add_component.
InvalidAndUnregisteredReached(operation) ==
    /\ call[1] = operation
    /\ call[2] \notin DOMAIN component_pools
    /\ ~is_valid(entity_allocator, call[3])
    /\ ret = <<"Err", "InvalidEntity">>

GetMutInvalidAndUnregistered == InvalidAndUnregisteredReached("get_component_mut")

AddInvalidAndUnregistered == InvalidAndUnregisteredReached("add_component")

====
